---------------------------- MODULE Spec2Model ----------------------------
(***************************************************************************)
(* A model of the attention-based Chebyshev graph convolution of           *)
(* src/models/baselines/attention/astgcn.py: ChebConvAttention (its        *)
(* constructor, __norm__ and forward), SpatialAttention, TemporalAttention *)
(* and ASTGCNBlock.                                                        *)
(*                                                                         *)
(* Tensors are functions from index tuples to numbers.  A number is a pair *)
(* <<n, d>>: the rational n/d in lowest terms when d > 0, and the IEEE     *)
(* specials when d = 0: <<1,0>> is +inf, <<-1,0>> is -inf, <<0,0>> is NaN. *)
(* The arithmetic below follows IEEE-754 on these values (x/0, inf-inf,    *)
(* inf*0), without rounding.                                               *)
(***************************************************************************)
EXTENDS Integers, Sequences, FiniteSets, TLC

VARIABLES
    layer,      \* the ChebConvAttention object, or NoLayer
    ctor,       \* the arguments of the last constructor call, or NoCall
    raised,     \* what the last constructor call raised ("none" if nothing)
    call,       \* the caller's arguments of the last forward call, or NoCall
    after,      \* the caller's tensors as they are after that call returned
    result,     \* what the last forward call did (status, Laplacian, output)
    normCall,   \* the arguments of the last call of __norm__, or NoCall
    normResult, \* what that call returned
    block,      \* the ASTGCNBlock object, or NoLayer
    net,        \* the ASTGCN object, or NoLayer
    blockCall,  \* the caller's arguments of the last call of the block
    blockAfter, \* the caller's tensors as they are after that call returned
    blockResult,\* what the last call of the block did
    attCall,    \* the attention module last called, with its input X
    attResult,  \* the attention matrix that call returned
    sizeCall,   \* the sizes a block or a network was built and called with
    sizeResult  \* the shapes of the tensors of that call

vars == <<layer, ctor, raised, call, after, result, normCall, normResult,
          block, net, blockCall, blockAfter, blockResult, attCall, attResult,
          sizeCall, sizeResult>>

\* Python's None for an optional tensor argument; a tensor that is given is
\* a record with given = TRUE
None == [given |-> FALSE]
IsNone(t) == ~t.given

-----------------------------------------------------------------------------
(* Bounds of the model. *)

NumNodes == 2       \* nodes of x (the size of x's node axis)
MaxEdges == 2       \* edges in an input edge list
MaxK == 4           \* largest filter order K of a constructed layer
MaxBlockK == 2      \* largest filter order K of a constructed block
NumTimesteps == 2   \* timesteps of X (the size of X's last axis)
MaxBlocks == 2      \* largest nb_block of a constructed ASTGCN
MaxSeqLen == 5      \* largest seq_len / num_of_timesteps of the size calls
MaxStride == 3      \* largest time_strides of the size calls

Nodes == 0 .. (NumNodes - 1)
Batch == {0, 1}     \* batch elements of x
InCh == {0, 1}      \* input channels
OutCh == {0}        \* output channels

-----------------------------------------------------------------------------
(* Numbers. *)

Abs(a) == IF a < 0 THEN -a ELSE a

RECURSIVE GCD(_, _)
GCD(a, b) == IF b = 0 THEN a ELSE GCD(b, a % b)

Sign(n) == IF n > 0 THEN 1 ELSE IF n < 0 THEN -1 ELSE 0

\* n/d in lowest terms with a positive denominator; d = 0 gives inf, -inf, NaN
Q(n, d) ==
    IF d = 0 THEN <<Sign(n), 0>>
    ELSE LET g == GCD(Abs(n), Abs(d))
             s == IF d < 0 THEN -1 ELSE 1
         IN  <<(s * n) \div g, (s * d) \div g>>

Z(i) == <<i, 1>>
Inf == <<1, 0>>
NegInf == <<-1, 0>>
NaN == <<0, 0>>

IsFinite(a) == a[2] # 0
IsNaN(a) == a = NaN

FNeg(a) == <<-a[1], a[2]>>

FAdd(a, b) ==
    IF a[2] = 0 /\ b[2] = 0
    THEN IF a = b THEN a ELSE NaN            \* inf + inf, inf - inf, NaN
    ELSE IF a[2] = 0 THEN a
    ELSE IF b[2] = 0 THEN b
    ELSE LET g == GCD(a[2], b[2])              \* over the common denominator
         IN  Q(a[1] * (b[2] \div g) + b[1] * (a[2] \div g), (a[2] \div g) * b[2])

FSub(a, b) == FAdd(a, FNeg(b))

\* inf * 0 = NaN; common factors are cancelled before multiplying
FMul(a, b) ==
    IF a[2] = 0 \/ b[2] = 0 THEN <<Sign(a[1]) * Sign(b[1]), 0>>
    ELSE LET g == GCD(Abs(a[1]), b[2])
             h == GCD(Abs(b[1]), a[2])
         IN  Q((a[1] \div g) * (b[1] \div h), (a[2] \div h) * (b[2] \div g))

\* 1/a: 1/0 = +inf, 1/inf = 0
FRecip(a) == IF a[1] < 0 THEN <<-a[2], -a[1]>> ELSE <<a[2], a[1]>>

FDiv(a, b) == FMul(a, FRecip(b))

\* IEEE ==: NaN equals nothing
FEq(a, b) == a = b /\ ~IsNaN(a)

FLe(a, b) == a[1] * b[2] <= b[1] * a[2]     \* on finite numbers

\* the sum of f[i] over the indices of the sequence idx
RECURSIVE FSum(_, _)
FSum(f, idx) ==
    IF idx = <<>> THEN Z(0) ELSE FAdd(f[Head(idx)], FSum(f, Tail(idx)))

RECURSIVE SetToSeq(_)
SetToSeq(S) ==
    IF S = {} THEN <<>>
    ELSE LET m == CHOOSE x \in S : \A y \in S : x <= y
         IN  <<m>> \o SetToSeq(S \ {m})

\* the function f as a table of its values: a function constructor is
\* evaluated anew at every application, a table is looked up
Tab(f) == CHOOSE g \in {f} : g = g

\* Op applied to the value of v.  An assignment statement computes its
\* right-hand side once, before the statements after it run: Bind(e, LAMBDA
\* x : rest) is "x = e" followed by rest.
Bind(v, Op(_)) == CHOOSE r \in {Op(x) : x \in {v}} : TRUE

NodeSeq == SetToSeq(Nodes)
Times == 0 .. (NumTimesteps - 1)
TimeSeq == SetToSeq(Times)
InChSeq == SetToSeq(InCh)


-----------------------------------------------------------------------------
(* Edge lists: edge_index is a sequence of pairs <<row, col>>; edge_weight  *)
(* is None or Weights(w), w a sequence of numbers of the same length.       *)

Row(e) == e[1]
Col(e) == e[2]

Weights(w) == [given |-> TRUE, w |-> w]

RECURSIVE KeepNonLoops(_, _)
KeepNonLoops(ei, s) ==
    IF ei = <<>> THEN <<>>
    ELSE (IF Row(Head(ei)) # Col(Head(ei)) THEN <<Head(s)>> ELSE <<>>)
         \o KeepNonLoops(Tail(ei), Tail(s))

\* torch_geometric.utils.remove_self_loops: the edges with row # col, in order
remove_self_loops(edge_index, edge_weight) ==
    [edge_index |-> KeepNonLoops(edge_index, edge_index),
     edge_weight |-> IF IsNone(edge_weight) THEN None
                     ELSE Weights(KeepNonLoops(edge_index, edge_weight.w))]

\* the loops (0,0), (1,1), ... that add_self_loops appends
LoopIndex == [i \in 1 .. NumNodes |-> <<i - 1, i - 1>>]

\* self-loop insertion that first drops the loops already in the list, so
\* that one loop per node remains (not what the code calls)
add_self_loops_replacing(edge_index, w, fill_value) ==
    [edge_index |-> KeepNonLoops(edge_index, edge_index) \o LoopIndex,
     edge_weight |-> KeepNonLoops(edge_index, w)
                     \o [i \in 1 .. NumNodes |-> fill_value]]

\* torch_geometric.utils.add_self_loops(edge_index, w, fill_value, num_nodes):
\* appends one loop (i, i) per node with weight fill_value, removes nothing
add_self_loops(edge_index, w, fill_value) ==
    [edge_index |-> edge_index \o LoopIndex,
     edge_weight |-> w \o [i \in 1 .. NumNodes |-> fill_value]]

\* scatter_add(edge_weight, row): the weighted out-degree of node n
Deg(edge_index, w, n) ==
    FSum(w, SetToSeq({i \in 1 .. Len(edge_index) : Row(edge_index[i]) = n}))

\* the largest r with r*r <= n, by bisection on lo <= r < hi
RECURSIVE ISqrtIn(_, _, _)
ISqrtIn(n, lo, hi) ==
    IF hi - lo <= 1 THEN lo
    ELSE LET mid == (lo + hi) \div 2
         IN  IF mid * mid <= n THEN ISqrtIn(n, mid, hi) ELSE ISqrtIn(n, lo, mid)

ISqrt(n) == ISqrtIn(n, 0, n + 1)

\* deg.pow(-0.5): 0 gives inf, a negative number NaN.  A float holds the
\* root rounded; here it is rounded down to a multiple of 1/8 (three binary
\* digits), and exact when the root is such a multiple (deg = 1, 4, 16, 64)
InvSqrt(a) ==
    IF a[2] = 0 THEN (IF a = Inf THEN Z(0) ELSE NaN)
    ELSE IF a[1] = 0 THEN Inf
    ELSE IF a[1] < 0 THEN NaN
    ELSE Q(ISqrt((8 * 8 * a[2]) \div a[1]), 8)

\* x.masked_fill_(x == float('inf'), 0) on one entry
MaskInf(a) == IF FEq(a, Inf) THEN Z(0) ELSE a

\* the Laplacian of the edges ei without loops and their weights w
LaplacianOf(ei, w, normalization) ==
    LET deg == Tab([n \in Nodes |-> Deg(ei, w, n)])
        dis == Tab([n \in Nodes |-> MaskInf(InvSqrt(deg[n]))])
        dinv == Tab([n \in Nodes |-> MaskInf(FDiv(Z(1), deg[n]))])
    IN  IF normalization = "none"
        THEN [edge_index |-> ei \o LoopIndex,
              edge_weight |-> [i \in 1 .. Len(ei) |-> FNeg(w[i])]
                              \o [i \in 1 .. NumNodes |-> deg[i - 1]]]
        ELSE IF normalization = "sym"
        THEN add_self_loops(ei,
                 [i \in 1 .. Len(ei) |->
                     FNeg(FMul(FMul(dis[Row(ei[i])], w[i]), dis[Col(ei[i])]))],
                 Z(1))
        ELSE add_self_loops(ei,
                 [i \in 1 .. Len(ei) |-> FNeg(FMul(dinv[Row(ei[i])], w[i]))],
                 Z(1))

\* torch_geometric.utils.get_laplacian(edge_index, edge_weight, normalization,
\* dtype, num_nodes): the edges without loops carry -A (normalized), followed
\* by one diagonal entry (i, i) per node: the degree, or 1 when normalized;
\* edges without weights have weight 1
get_laplacian(edge_index0, edge_weight0, normalization) ==
    Bind(remove_self_loops(edge_index0, edge_weight0), LAMBDA kept :
    Bind(IF IsNone(kept.edge_weight)
         THEN [i \in 1 .. Len(kept.edge_index) |-> Z(1)]
         ELSE kept.edge_weight.w, LAMBDA w :
    LaplacianOf(kept.edge_index, w, normalization)))

-----------------------------------------------------------------------------
(* lambda_max is None or a tensor: Scalar(v), zero-dimensional, or          *)
(* Vector(s), one-dimensional with the values of the sequence s.  batch is  *)
(* None or BatchOf(b), b[i+1] the graph id of node i.                       *)

Scalar(v) == [given |-> TRUE, tensor |-> TRUE, dim |-> 0, val |-> <<v>>]
Vector(s) == [given |-> TRUE, tensor |-> TRUE, dim |-> 1, val |-> s]
PyNumber(v) == [given |-> TRUE, tensor |-> FALSE, dim |-> 0, val |-> <<v>>]
Numel(t) == Len(t.val)
BatchOf(b) == [given |-> TRUE, b |-> b]

\* the divisor looked up by the graph of the edge's target endpoint
Divisors_by_target(edge_index, lambda_max, batch) ==
    IF ~IsNone(batch) /\ Numel(lambda_max) > 1
    THEN [ok |-> TRUE,
          lam |-> [i \in 1 .. Len(edge_index) |->
                      lambda_max.val[batch.b[Col(edge_index[i]) + 1] + 1]]]
    ELSE IF Numel(lambda_max) = 1
    THEN [ok |-> TRUE, lam |-> [i \in 1 .. Len(edge_index) |-> lambda_max.val[1]]]
    ELSE IF Numel(lambda_max) = Len(edge_index)
    THEN [ok |-> TRUE, lam |-> lambda_max.val]
    ELSE [ok |-> FALSE]

\* lines 84-87: the divisor of every Laplacian edge.  With a batch vector and
\* more than one element, lambda_max[batch[edge_index[0]]]; otherwise the
\* division broadcasts lambda_max against edge_weight: one element divides
\* every edge, as many elements as edges divide position by position, and
\* any other size does not broadcast (a RuntimeError, ok = FALSE)
Divisors(edge_index, lambda_max, batch) ==
    IF ~IsNone(batch) /\ Numel(lambda_max) > 1
    THEN [ok |-> TRUE,
          lam |-> [i \in 1 .. Len(edge_index) |->
                      lambda_max.val[batch.b[Row(edge_index[i]) + 1] + 1]]]
    ELSE IF Numel(lambda_max) = 1
    THEN [ok |-> TRUE, lam |-> [i \in 1 .. Len(edge_index) |-> lambda_max.val[1]]]
    ELSE IF Numel(lambda_max) = Len(edge_index)
    THEN [ok |-> TRUE, lam |-> lambda_max.val]
    ELSE [ok |-> FALSE]

\* lines 87-88: (2.0 * edge_weight) / lambda_max, then +inf entries set to 0
ScaleWeight(w, lam) == MaskInf(FDiv(FMul(Z(2), w), lam))

\* the fill value of the loops __norm__ appends (line 91)
SelfLoopFill == Z(-1)

\* ChebConvAttention.__norm__: the edge list of 2L/lambda_max with the loops
\* of weight -1 appended, or a RuntimeError (ok = FALSE)
norm_(edge_index, edge_weight, normalization, lambda_max, batch) ==
    Bind(remove_self_loops(edge_index, edge_weight), LAMBDA kept :
    Bind(get_laplacian(kept.edge_index, kept.edge_weight, normalization), LAMBDA lap :
    Bind(Divisors(lap.edge_index, lambda_max, batch), LAMBDA div :
    IF ~div.ok THEN [ok |-> FALSE]
    ELSE
    Bind(Tab([i \in 1 .. Len(lap.edge_index) |->
                 ScaleWeight(lap.edge_weight[i], div.lam[i])]), LAMBDA scaled :
    Bind(add_self_loops(lap.edge_index, scaled, SelfLoopFill), LAMBDA added :
        [ok |-> TRUE,
         laplacian |-> lap,
         divisors |-> div.lam,
         edge_index |-> added.edge_index,
         edge_weight |-> added.edge_weight])))))

-----------------------------------------------------------------------------
(* Tensors of the forward pass: x[b][n][f], spatial_attention[b][i][j],     *)
(* _weight[k][f][o], _bias None or Bias(v) with v[o].  A local tensor is a  *)
(* record [ref, v]: ref names the caller's or the layer's tensor whose      *)
(* storage it shares, or is "fresh" for a tensor the statement allocated.   *)

Bias(v) == [given |-> TRUE, v |-> v]

NewTensor(v) == [ref |-> "fresh", v |-> v]

\* an in-place operation on the local tensor t writes v to its storage
InPlace(store, t, v) ==
    IF t.ref = "fresh" THEN store ELSE [store EXCEPT ![t.ref] = v]

\* torch.matmul(T, W) for T[b][n][f] and W[f][o]
MatMul(T, W) ==
    Tab([b \in Batch |-> [n \in Nodes |-> [o \in OutCh |->
        FSum([f \in InCh |-> FMul(T[b][n][f], W[f][o])], InChSeq)]]])

TAdd(A, B) ==
    Tab([b \in Batch |-> [n \in Nodes |-> [o \in OutCh |->
        FAdd(A[b][n][o], B[b][n][o])]]])

\* an order-0 term from the whole attention matrix, not only its diagonal
OrderZero_unmasked(spatial_attention, x) ==
    Tab([b \in Batch |-> [i \in Nodes |-> [f \in InCh |->
        FSum([j \in Nodes |-> FMul(spatial_attention[b][j][i], x[b][j][f])],
             NodeSeq)]]])

\* line 132: ((eye(N) * spatial_attention).permute(0, 2, 1)) @ x
OrderZero(spatial_attention, x) ==
    LET masked == Tab([b \in Batch |-> [i \in Nodes |-> [j \in Nodes |->
                     FMul(Z(IF i = j THEN 1 ELSE 0), spatial_attention[b][i][j])]]])
        permuted == Tab([b \in Batch |-> [i \in Nodes |-> [j \in Nodes |->
                     masked[b][j][i]]]])
    IN  Tab([b \in Batch |-> [i \in Nodes |-> [f \in InCh |->
            FSum([j \in Nodes |-> FMul(permuted[b][i][j], x[b][j][f])], NodeSeq)]]])

\* the attention entry of the reversed pair, spatial_attention[:, col, row]
AttNorm_transposed(edge_index, norm, spatial_attention) ==
    Tab([b \in Batch |-> [e \in 1 .. Len(edge_index) |->
        FMul(norm[e], spatial_attention[b][Col(edge_index[e])][Row(edge_index[e])])]])

\* line 130: norm * spatial_attention[:, row, col], one row per batch element
AttNorm(edge_index, norm, spatial_attention) ==
    Tab([b \in Batch |-> [e \in 1 .. Len(edge_index) |->
        FMul(norm[e], spatial_attention[b][Row(edge_index[e])][Col(edge_index[e])])]])

\* line 134: edge_index[[1, 0]]
Transpose(edge_index) ==
    Tab([e \in 1 .. Len(edge_index) |-> <<Col(edge_index[e]), Row(edge_index[e])>>])

\* message (lines 150-155): a one-dimensional norm is shared by the batch
\* elements, a two-dimensional one has a row per batch element
Message(norm, twoDim, b, e, xj) ==
    FMul(IF twoDim THEN norm[b][e] ELSE norm[e], xj)

\* MessagePassing.propagate with aggr = 'add': the message of edge e comes
\* from node edge_index[e][0] and is summed at node edge_index[e][1]
Propagate(edge_index, x, norm, twoDim) ==
    Tab([b \in Batch |-> [n \in Nodes |-> [f \in InCh |->
        FSum([e \in 1 .. Len(edge_index) |->
                 Message(norm, twoDim, b, e, x[b][Row(edge_index[e])][f])],
             SetToSeq({e \in 1 .. Len(edge_index) : Col(edge_index[e]) = n}))]]])

\* lines 137 and 142: out = out + torch.matmul(T, self._weight[k])
Accumulate(out, T, Wk) == TAdd(out, MatMul(T, Wk))

\* line 141 without the factor 2
Recurrence_undoubled(P, T0) ==
    Tab([b \in Batch |-> [n \in Nodes |-> [f \in InCh |->
        FSub(P[b][n][f], T0[b][n][f])]]])

\* line 141: TAx_2 = 2. * TAx_2 - TAx_0
Recurrence(P, T0) ==
    Tab([b \in Batch |-> [n \in Nodes |-> [f \in InCh |->
        FSub(FMul(Z(2), P[b][n][f]), T0[b][n][f])]]])

\* lines 139-143: the terms k .. K-1, from T0 = T_{k-2} and T1 = T_{k-1};
\* terms lists the Chebyshev terms computed so far, T_0 first
RECURSIVE ChebLoop(_, _, _, _, _, _, _, _, _)
ChebLoop(k, K, W, eit, norm, T0, T1, out, terms) ==
    IF k >= K THEN [out |-> out, terms |-> terms]
    ELSE
    Bind(Propagate(eit, T1, norm, FALSE), LAMBDA P :
    Bind(Recurrence(P, T0), LAMBDA TAx_2 :
    Bind(Accumulate(out, TAx_2, W[k]), LAMBDA out_k :
    ChebLoop(k + 1, K, W, eit, norm, T1, TAx_2, out_k, Append(terms, TAx_2)))))

\* the bias added into the parameter instead of into out
BiasAdd_into_bias(store, out, bias) ==
    IF IsNone(bias) THEN [store |-> store, out |-> out.v]
    ELSE LET sum == Tab([b \in Batch |-> [n \in Nodes |-> [o \in OutCh |->
                        FAdd(out.v[b][n][o], bias.v[o])]]])
         IN  [store |-> [store EXCEPT !["_bias"] = Bias(sum[0][0])], out |-> sum]

\* lines 145-146: out += self._bias, in place on out
BiasAdd(store, out, bias) ==
    IF IsNone(bias) THEN [store |-> store, out |-> out.v]
    ELSE LET sum == Tab([b \in Batch |-> [n \in Nodes |-> [o \in OutCh |->
                        FAdd(out.v[b][n][o], bias.v[o])]]])
         IN  [store |-> InPlace(store, out, sum), out |-> sum]

\* the check of line 114 without the random-walk case
MissingLambdaMax_none_only(normalization, lambda_max) ==
    normalization = "none" /\ IsNone(lambda_max)

\* line 114: self._normalization != 'sym' and lambda_max is None
MissingLambdaMax(normalization, lambda_max) ==
    normalization # "sym" /\ IsNone(lambda_max)

\* lines 118-122: the default 2.0, and a Python number made a tensor
LambdaTensor(lambda_max) ==
    IF IsNone(lambda_max) THEN Scalar(Z(2))
    ELSE IF ~lambda_max.tensor THEN Scalar(lambda_max.val[1])
    ELSE lambda_max

\* the tensors a forward call can reach: the caller's arguments and the
\* layer's parameters
StoreOf(lyr, c) ==
    [x |-> c.x, edge_index |-> c.edge_index, edge_weight |-> c.edge_weight,
     spatial_attention |-> c.spatial_attention, batch |-> c.batch,
     lambda_max |-> c.lambda_max, _weight |-> lyr.weight, _bias |-> lyr.bias]

\* whether the sources, the targets, of the edges that are not loops are
\* nodes of x (line 78 drops the loops before anything indexes by them)
RowsInRange(edge_index) ==
    \A e \in 1 .. Len(edge_index) :
        Row(edge_index[e]) # Col(edge_index[e]) => Row(edge_index[e]) \in Nodes

ColsInRange(edge_index) ==
    \A e \in 1 .. Len(edge_index) :
        Row(edge_index[e]) # Col(edge_index[e]) => Col(edge_index[e]) \in Nodes

\* ChebConvAttention.forward (lines 114-148) on the layer lyr and the call c:
\* what it raises or returns, and the reachable tensors after it.  An edge
\* from a node that x does not have makes the degree scatter of get_laplacian
\* raise (line 80); an edge to such a node makes the indexing by col raise,
\* in get_laplacian under 'sym' and at line 130 otherwise.
forward(lyr, c) ==
    IF MissingLambdaMax(lyr.normalization, c.lambda_max)
    THEN [status |-> "ValueError", store |-> StoreOf(lyr, c)]
    ELSE IF ~RowsInRange(c.edge_index)
    THEN [status |-> "RuntimeError", store |-> StoreOf(lyr, c)]
    ELSE IF lyr.normalization = "sym" /\ ~ColsInRange(c.edge_index)
    THEN [status |-> "IndexError", store |-> StoreOf(lyr, c)]
    ELSE
    Bind(LambdaTensor(c.lambda_max), LAMBDA lam :
    Bind(norm_(c.edge_index, c.edge_weight, lyr.normalization, lam, c.batch),
         LAMBDA nrm :
    IF ~nrm.ok
    THEN [status |-> "RuntimeError", store |-> StoreOf(lyr, c)]
    ELSE IF ~ColsInRange(c.edge_index)
    THEN [status |-> "IndexError", store |-> StoreOf(lyr, c)]
    ELSE
    \* line 88 is in place on the tensor line 87 allocated
    Bind(InPlace(StoreOf(lyr, c), NewTensor(nrm.edge_weight), nrm.edge_weight),
         LAMBDA store1 :
    Bind(AttNorm(nrm.edge_index, nrm.edge_weight, c.spatial_attention),
         LAMBDA Att_norm :
    Bind(OrderZero(c.spatial_attention, c.x), LAMBDA TAx_0 :
    Bind(MatMul(TAx_0, lyr.weight[0]), LAMBDA out0 :
    Bind(Transpose(nrm.edge_index), LAMBDA edge_index_transpose :
    Bind(IF lyr.K > 1
         THEN Propagate(edge_index_transpose, TAx_0, Att_norm, TRUE)
         ELSE None, LAMBDA TAx_1 :
    Bind(IF lyr.K > 1 THEN Accumulate(out0, TAx_1, lyr.weight[1]) ELSE out0,
         LAMBDA out1 :
    Bind(ChebLoop(2, lyr.K, lyr.weight, edge_index_transpose, nrm.edge_weight,
                  TAx_0, TAx_1, out1,
                  IF lyr.K > 1 THEN <<TAx_0, TAx_1>> ELSE <<TAx_0>>),
         LAMBDA loop :
    Bind(BiasAdd(store1, NewTensor(loop.out), lyr.bias), LAMBDA fin :
        [status |-> "ok", lambda_max |-> lam, norm |-> nrm,
         terms |-> loop.terms, out |-> fin.out, store |-> fin.store])))))))))))

-----------------------------------------------------------------------------
(* Construction. *)

NoLayer == [ok |-> FALSE]

\* _reset_parameters draws the parameters at random; seed picks the draw
InitWeight(K, seed) ==
    [k \in 0 .. (K - 1) |-> [f \in InCh |-> [o \in OutCh |->
        Q(((seed + 2 * k + f + o) % 5) - 2, 2)]]]

InitBias(seed) == Bias([o \in OutCh |-> Q(1 + ((seed + o) % 2), 2)])

\* a filter-order check that lets K = 0 through
ValidK_nonnegative(K) == K >= 0

\* line 53: assert K > 0
ValidK(K) == K > 0

\* line 54: assert normalization in [None, 'sym', 'rw']
ValidNormalization(normalization) == normalization \in {"none", "sym", "rw"}

\* ChebConvAttention.__init__ (lines 48-66): the layer, or the AssertionError
ChebConvAttention(K, normalization, bias, seed) ==
    IF ~ValidK(K) \/ ~ValidNormalization(normalization)
    THEN [ok |-> FALSE, raised |-> "AssertionError"]
    ELSE [ok |-> TRUE, raised |-> "none",
          layer |-> [ok |-> TRUE, K |-> K, normalization |-> normalization,
                     weight |-> InitWeight(K, seed),
                     bias |-> IF bias THEN InitBias(seed) ELSE None]]

-----------------------------------------------------------------------------
(* SpatialAttention and TemporalAttention.  Here X is the four-dimensional  *)
(* tensor itself: X[b][n][f][t].  exp and the logistic sigmoid have no      *)
(* rational values; they are replaced by rational functions with the        *)
(* properties the code relies on.  Exp is 2^v at the integers and linear    *)
(* between them: positive, increasing, Exp(0) = 1.  Sigmoid is built from   *)
(* it: increasing, strictly between 0 and 1, Sigmoid(-v) = 1 - Sigmoid(v).  *)

RECURSIVE Pow2(_)
Pow2(k) == IF k = 0 THEN Z(1)
           ELSE IF k > 0 THEN FMul(Z(2), Pow2(k - 1))
           ELSE FMul(Q(1, 2), Pow2(k + 1))

Exp(v) ==
    LET floor == v[1] \div v[2]
    IN  FMul(Pow2(floor), FAdd(Z(1), FSub(v, Z(floor))))

Sigmoid(v) ==
    IF v[1] >= 0 THEN FSub(Z(1), FMul(Q(1, 2), Exp(FNeg(v))))
    ELSE FMul(Q(1, 2), Exp(v))

\* a softmax along the last axis (dim = 2)
Softmax_last_axis(S, I, J) ==
    Tab([b \in Batch |-> [i \in I |-> [j \in J |->
        FDiv(Exp(S[b][i][j]),
             FSum([k \in J |-> Exp(S[b][i][k])], SetToSeq(J)))]]])

\* F.softmax(S, dim=1) on S[b][i][j], i in I and j in J (lines 205, 250)
Softmax(S, I, J) ==
    Tab([b \in Batch |-> [i \in I |-> [j \in J |->
        FDiv(Exp(S[b][i][j]),
             FSum([k \in I |-> Exp(S[b][k][j])], SetToSeq(I)))]]])

\* the parameters _reset_parameters draws (lines 176-188); seed picks the draw
SpatialParameters(seed) ==
    [W1 |-> [t \in Times |-> Q(1 + ((seed + t) % 2), 2)],
     W2 |-> [f \in InCh |-> [t \in Times |-> Q(((seed + f + 2 * t) % 3) - 1, 2)]],
     W3 |-> [f \in InCh |-> Q(1 + ((seed + f + 1) % 2), 2)],
     bs |-> [i \in Nodes |-> [j \in Nodes |-> Q(((seed + i + j) % 3) - 1, 2)]],
     Vs |-> [i \in Nodes |-> [j \in Nodes |-> Q(((seed + 2 * i + j) % 3) - 1, 1)]]]

\* lines 223-235
TemporalParameters(seed) ==
    [U1 |-> [n \in Nodes |-> Q(1 + ((seed + n) % 2), 2)],
     U2 |-> [f \in InCh |-> [n \in Nodes |-> Q(((seed + f + 2 * n) % 3) - 1, 2)]],
     U3 |-> [f \in InCh |-> Q(1 + ((seed + f + 1) % 2), 2)],
     be |-> [t \in Times |-> [u \in Times |-> Q(((seed + t + u) % 3) - 1, 2)]],
     Ve |-> [t \in Times |-> [u \in Times |-> Q(((seed + 2 * t + u) % 3) - 1, 1)]]]

\* SpatialAttention.forward (lines 202-206)
SpatialAttention_forward(P, X) ==
    LET XW1 == Tab([b \in Batch |-> [n \in Nodes |-> [f \in InCh |->
                   FSum([t \in Times |-> FMul(X[b][n][f][t], P.W1[t])], TimeSeq)]]])
        LHS == Tab([b \in Batch |-> [n \in Nodes |-> [t \in Times |->
                   FSum([f \in InCh |-> FMul(XW1[b][n][f], P.W2[f][t])], InChSeq)]]])
        RHS == Tab([b \in Batch |-> [t \in Times |-> [n \in Nodes |->
                   FSum([f \in InCh |-> FMul(P.W3[f], X[b][n][f][t])], InChSeq)]]])
        sig == Tab([b \in Batch |-> [i \in Nodes |-> [j \in Nodes |->
                   Sigmoid(FAdd(
                       FSum([t \in Times |-> FMul(LHS[b][i][t], RHS[b][t][j])], TimeSeq),
                       P.bs[i][j]))]]])
        S == Tab([b \in Batch |-> [i \in Nodes |-> [j \in Nodes |->
                   FSum([k \in Nodes |-> FMul(P.Vs[i][k], sig[b][k][j])], NodeSeq)]]])
    IN  Softmax(S, Nodes, Nodes)

\* TemporalAttention.forward (lines 247-251)
TemporalAttention_forward(P, X) ==
    LET XU1 == Tab([b \in Batch |-> [t \in Times |-> [f \in InCh |->
                   FSum([n \in Nodes |-> FMul(X[b][n][f][t], P.U1[n])], NodeSeq)]]])
        LHS == Tab([b \in Batch |-> [t \in Times |-> [n \in Nodes |->
                   FSum([f \in InCh |-> FMul(XU1[b][t][f], P.U2[f][n])], InChSeq)]]])
        RHS == Tab([b \in Batch |-> [n \in Nodes |-> [t \in Times |->
                   FSum([f \in InCh |-> FMul(P.U3[f], X[b][n][f][t])], InChSeq)]]])
        sig == Tab([b \in Batch |-> [t \in Times |-> [u \in Times |->
                   Sigmoid(FAdd(
                       FSum([n \in Nodes |-> FMul(LHS[b][t][n], RHS[b][n][u])], NodeSeq),
                       P.be[t][u]))]]])
        E == Tab([b \in Batch |-> [t \in Times |-> [u \in Times |->
                   FSum([k \in Times |-> FMul(P.Ve[t][k], sig[b][k][u])], TimeSeq)]]])
    IN  Softmax(E, Times, Times)

-----------------------------------------------------------------------------
(* ASTGCNBlock and ASTGCN.  X is the sequence of its time slices:           *)
(* X[t][b][n][f] is X[b, n, f, t-1].  The edge_index argument is            *)
(* Graph(g), one edge list, or GraphList(gs), a Python list of edge lists.  *)

Graph(g) == [list |-> FALSE, graph |-> g]
GraphList(gs) == [list |-> TRUE, graphs |-> gs]

\* ASTGCNBlock.__init__ (lines 285-298): the two attention modules and the
\* convolutions take any sizes; ChebConvAttention's assertions decide
ASTGCNBlock(K, normalization, bias, seed) ==
    LET conv == ChebConvAttention(K, normalization, bias, seed)
    IN  IF ~conv.ok THEN [ok |-> FALSE, raised |-> conv.raised]
        ELSE [ok |-> TRUE, raised |-> "none",
              block |-> [ok |-> TRUE,
                         temporal_attention |-> TemporalParameters(seed),
                         spatial_attention |-> SpatialParameters(seed),
                         chebconv_attention |-> conv.layer,
                         normalization |-> normalization]]

\* ASTGCN.__init__ (lines 389-404): one block, then nb_block - 1 more
ASTGCN(nb_block, K, normalization, bias, seed) ==
    LET first == ASTGCNBlock(K, normalization, bias, seed)
    IN  IF ~first.ok THEN [ok |-> FALSE, raised |-> first.raised]
        ELSE [ok |-> TRUE, raised |-> "none",
              net |-> [ok |-> TRUE,
                       blocklist |-> <<first.block>> \o
                           [i \in 1 .. (nb_block - 1) |->
                               ASTGCNBlock(K, normalization, bias, seed + i).block]]]

\* A float holds a number to a limited precision.  The attention matrices
\* of the block are held to the nearest quarter, which keeps the numbers of
\* the convolutions that use them within the integers of the model.
Float(v) ==
    IF v[2] = 0 THEN v ELSE Q((4 * v[1] + (v[2] \div 2)) \div v[2], 4)

\* the three-dimensional tensor A as the module returns it
Returned(A) ==
    Tab([b \in DOMAIN A |-> [i \in DOMAIN A[b] |-> [j \in DOMAIN A[b][i] |->
        Float(A[b][i][j])]]])

\* the slices X[t] as one tensor X[b][n][f][t-1]
AsTensor(X) ==
    [b \in Batch |-> [n \in Nodes |-> [f \in InCh |-> [t \in Times |->
        X[t + 1][b][n][f]]]]]

\* the slice [:, :, :, t-1] of the tensor X4
SliceAt(X4, t) ==
    [b \in Batch |-> [n \in Nodes |-> [f \in InCh |-> X4[b][n][f][t - 1]]]]

\* lines 321-322: X.reshape(B, N*F, T) @ E, reshaped to (B, N, F, T)
Reweight(X4, E) ==
    Tab([b \in Batch |-> [n \in Nodes |-> [f \in InCh |-> [u \in Times |->
        FSum([t \in Times |-> FMul(X4[b][n][f][t], E[b][t][u])], TimeSeq)]]]])

\* lines 320-323 with the spatial attention computed from X itself
X_tilde_from_input(blk, X) ==
    Bind(Returned(TemporalAttention_forward(blk.temporal_attention, AsTensor(X))),
         LAMBDA E :
    Bind(Returned(SpatialAttention_forward(blk.spatial_attention, AsTensor(X))),
         LAMBDA S :
        [modules |-> <<[module |-> "TemporalAttention", input |-> AsTensor(X),
                        output |-> E],
                       [module |-> "SpatialAttention", input |-> AsTensor(X),
                        output |-> S]>>,
         reweighted |-> Reweight(AsTensor(X), E),
         spatial_attention |-> S]))

\* lines 320-323: the temporal attention matrix E of X, X reweighted by it,
\* and the spatial attention matrix of the reweighted tensor, which the name
\* X_tilde holds from line 323 on; modules lists the attention modules
\* called, in order
X_tilde(blk, X) ==
    Bind(Returned(TemporalAttention_forward(blk.temporal_attention, AsTensor(X))),
         LAMBDA E :
    Bind(Reweight(AsTensor(X), E), LAMBDA reweighted :
    Bind(Returned(SpatialAttention_forward(blk.spatial_attention, reweighted)),
         LAMBDA S :
        [modules |-> <<[module |-> "TemporalAttention", input |-> AsTensor(X),
                        output |-> E],
                       [module |-> "SpatialAttention", input |-> reweighted,
                        output |-> S]>>,
         reweighted |-> reweighted,
         spatial_attention |-> S])))

\* the number of edges out of node n that are not loops
OutDegree(edge_index, n) ==
    Cardinality({e \in 1 .. Len(edge_index) :
        Row(edge_index[e]) = n /\ Col(edge_index[e]) # n})

\* LaplacianLambdaMax()(data).lambda_max (lines 328 and 341): the transform
\* is built without arguments, so it takes the largest eigenvalue of the
\* unnormalized L = D - A whatever the block's normalization is, and returns
\* it as a Python float.  When every edge goes from a lower to a higher node
\* L is triangular and its eigenvalues are the out-degrees.  An edge from a
\* node outside the graph fails in get_laplacian's scatter, an edge to one in
\* the construction of the scipy matrix.
LaplacianLambdaMax(edge_index) ==
    IF ~RowsInRange(edge_index) THEN [status |-> "RuntimeError"]
    ELSE IF ~ColsInRange(edge_index) THEN [status |-> "ValueError"]
    ELSE [status |-> "ok",
          lambda_max |->
              PyNumber(Z(CHOOSE d \in 0 .. Len(edge_index) :
                  /\ \E n \in Nodes : OutDegree(edge_index, n) = d
                  /\ \A n \in Nodes : OutDegree(edge_index, n) <= d))]

\* F.relu on one entry
Relu(v) == IF v = NaN THEN NaN ELSE IF v[1] < 0 THEN Z(0) ELSE v

\* the slice of the reweighted tensor as the node features of timestep t
ConvInput_reweighted(X, attention, t) == SliceAt(attention.reweighted, t)

\* lines 333 and 344: X[:, :, :, t], the node features of timestep t
ConvInput(X, attention, t) == X[t]

\* lines 332-333 and 338-344: the iterations t .. NumTimesteps of the loop
\* over the timesteps.  conv is the convolution layer and acc holds X_hat,
\* the caller's tensors and the calls of the convolution made so far.
RECURSIVE ConvOverTime(_, _, _, _, _, _)
ConvOverTime(t, conv, normalization, attention, static, acc) ==
    IF t > NumTimesteps
    THEN [status |-> "ok", conv |-> conv, X |-> acc.X,
          edge_index |-> acc.edge_index, calls |-> acc.calls,
          X_hat |-> acc.X_hat]
    ELSE IF acc.edge_index.list /\ t > Len(acc.edge_index.graphs)
    THEN [status |-> "IndexError", conv |-> conv, X |-> acc.X,   \* edge_index[t]
          edge_index |-> acc.edge_index, calls |-> acc.calls]
    ELSE
    Bind(IF acc.edge_index.list THEN acc.edge_index.graphs[t]
         ELSE acc.edge_index.graph, LAMBDA g :
    Bind(IF ~acc.edge_index.list THEN static
         ELSE IF normalization # "sym" THEN LaplacianLambdaMax(g)
         ELSE [status |-> "ok", lambda_max |-> None], LAMBDA lm :
    IF lm.status # "ok"
    THEN [status |-> lm.status, conv |-> conv, X |-> acc.X,
          edge_index |-> acc.edge_index, calls |-> acc.calls]
    ELSE
    Bind(ConvInput(acc.X, attention, t), LAMBDA x :
    Bind(forward(conv, [made |-> TRUE, x |-> x, edge_index |-> g,
                        spatial_attention |-> attention.spatial_attention,
                        edge_weight |-> None,
                        batch |-> None, lambda_max |-> lm.lambda_max]),
         LAMBDA r :
    Bind([conv EXCEPT !.weight = r.store._weight, !.bias = r.store._bias],
         LAMBDA conv1 :
    Bind([X |-> [acc.X EXCEPT ![t] = r.store.x],
          edge_index |->
              IF acc.edge_index.list
              THEN GraphList([acc.edge_index.graphs EXCEPT
                                 ![t] = r.store.edge_index])
              ELSE Graph(r.store.edge_index),
          calls |-> Append(acc.calls,
                      [t |-> t, x |-> x, edge_index |-> g,
                       spatial_attention |-> attention.spatial_attention,
                       lambda_max |-> lm.lambda_max]),
          X_hat |-> IF r.status = "ok"
                    THEN Append(acc.X_hat, r.out) ELSE acc.X_hat],
         LAMBDA acc1 :
    IF r.status # "ok"
    THEN [status |-> r.status, conv |-> conv1, X |-> acc1.X,
          edge_index |-> acc1.edge_index, calls |-> acc1.calls]
    ELSE ConvOverTime(t + 1, conv1, normalization, attention, static, acc1)))))))

\* ASTGCNBlock.forward (lines 318-348) on the block blk and the call c: what
\* it raises, or X_hat after line 335 / 345 and the tensor line 348 hands to
\* the residual convolution, with the attention modules and the convolutions
\* it called and the tensors after it.
ASTGCNBlock_forward(blk, c) ==
    Bind(X_tilde(blk, c.X), LAMBDA attention :
    Bind(IF ~c.edge_index.list /\ blk.normalization # "sym"
         THEN LaplacianLambdaMax(c.edge_index.graph)
         ELSE [status |-> "ok", lambda_max |-> None], LAMBDA static :
    IF ~c.edge_index.list /\ static.status # "ok"
    THEN [status |-> static.status, conv |-> blk.chebconv_attention,
          X |-> c.X, edge_index |-> c.edge_index, calls |-> <<>>,
          modules |-> attention.modules]
    ELSE
    Bind(ConvOverTime(1, blk.chebconv_attention, blk.normalization, attention,
                      static,
                      [X |-> c.X, edge_index |-> c.edge_index, calls |-> <<>>,
                       X_hat |-> <<>>]), LAMBDA r :
    IF r.status # "ok" THEN [modules |-> attention.modules] @@ r
    ELSE [modules |-> attention.modules, residual_input |-> r.X] @@
         [r EXCEPT !.X_hat =
             [t \in 1 .. NumTimesteps |-> [b \in Batch |->
                 [n \in Nodes |-> [o \in OutCh |->
                     Relu(r.X_hat[t][b][n][o])]]]]])))

-----------------------------------------------------------------------------
(* The shapes of the tensors of ASTGCNBlock.forward and ASTGCN.forward: a    *)
(* shape is the tuple of the sizes of the axes.                             *)

\* the size along an axis of what nn.Conv2d returns for an input of size L
\* along it (dilation 1)
Conv2dLength(L, kernel_size, stride, padding) ==
    ((L + 2 * padding - (kernel_size - 1) - 1) \div stride) + 1

\* line 293 without the padding
TimeConvolution_unpadded(nb_chev_filter, nb_time_filter, time_strides) ==
    [in_channels |-> nb_chev_filter, out_channels |-> nb_time_filter,
     kernel_size |-> 3, stride |-> time_strides, padding |-> 0]

\* line 293: nn.Conv2d(nb_chev_filter, nb_time_filter, kernel_size=(1, 3),
\* stride=(1, time_strides), padding=(0, 1)), along the time axis
TimeConvolution(nb_chev_filter, nb_time_filter, time_strides) ==
    [in_channels |-> nb_chev_filter, out_channels |-> nb_time_filter,
     kernel_size |-> 3, stride |-> time_strides, padding |-> 1]

\* line 294: nn.Conv2d(in_channels, nb_time_filter, kernel_size=(1, 1),
\* stride=(1, time_strides)), along the time axis
ResidualConvolution(in_channels, nb_time_filter, time_strides) ==
    [in_channels |-> in_channels, out_channels |-> nb_time_filter,
     kernel_size |-> 1, stride |-> time_strides, padding |-> 0]

\* ASTGCNBlock.__init__ (lines 290-296): the sizes the modules are built for
BlockSizes(in_channels, nb_chev_filter, nb_time_filter, time_strides, num_of_vertices, num_of_timesteps) ==
    [in_channels |-> in_channels,
     nb_chev_filter |-> nb_chev_filter,
     nb_time_filter |-> nb_time_filter,
     num_of_vertices |-> num_of_vertices,
     num_of_timesteps |-> num_of_timesteps,
     time_convolution |->
         TimeConvolution(nb_chev_filter, nb_time_filter, time_strides),
     residual_convolution |->
         ResidualConvolution(in_channels, nb_time_filter, time_strides)]

\* the shape of conv(input) for input of shape (B, C, N, L) and a kernel
\* that spans one node; a channel mismatch raises
Conv2dShape(conv, shape) ==
    IF shape[2] # conv.in_channels
    THEN [status |-> "RuntimeError"]
    ELSE [status |-> "ok",
          shape |-> <<shape[1], conv.out_channels, shape[3],
                      Conv2dLength(shape[4], conv.kernel_size, conv.stride,
                                   conv.padding)>>]

\* ASTGCNBlock.forward on X of shape (B, N, F, T), shapes only.  The
\* attention modules multiply X by parameters of the sizes they were built
\* for (lines 202-204, 247-249, 321): another N, F or T raises.
ASTGCNBlock_shape(blk, shape) ==
    IF \/ shape[2] # blk.num_of_vertices
       \/ shape[3] # blk.in_channels
       \/ shape[4] # blk.num_of_timesteps
    THEN [status |-> "RuntimeError"]
    ELSE
    \* line 347: X_hat of shape (B, N, nb_chev_filter, T), permuted
    Bind(Conv2dShape(blk.time_convolution,
                     <<shape[1], blk.nb_chev_filter, shape[2], shape[4]>>),
         LAMBDA X_hat :
    \* line 348: X permuted
    Bind(Conv2dShape(blk.residual_convolution,
                     <<shape[1], shape[3], shape[2], shape[4]>>),
         LAMBDA X :
    \* line 349: X + X_hat broadcasts an axis of size 1
    IF X_hat.status # "ok" \/ X.status # "ok"
    THEN [status |-> "RuntimeError"]
    ELSE IF /\ X.shape[4] # X_hat.shape[4]
            /\ X.shape[4] # 1
            /\ X_hat.shape[4] # 1
    THEN [status |-> "RuntimeError", time_convolution |-> X_hat.shape,
          residual_convolution |-> X.shape]
    ELSE [status |-> "ok",
          time_convolution |-> X_hat.shape,
          residual_convolution |-> X.shape,
          \* line 350: (B, N, nb_time_filter, T_out)
          out |-> <<shape[1], shape[2], blk.nb_time_filter,
                    IF X.shape[4] = 1 THEN X_hat.shape[4] ELSE X.shape[4]>>]))

\* ASTGCN.__init__ (lines 394-402): the sizes of the blocks and of the final
\* convolution
NetSizes(nb_block, input_size, output_size, nb_chev_filter, nb_time_filter, time_strides, pred_len, seq_len, num_of_nodes) ==
    [pred_len |-> pred_len,
     output_size |-> output_size,
     blocklist |->
         <<BlockSizes(input_size, nb_chev_filter, nb_time_filter, time_strides,
                      num_of_nodes, seq_len)>> \o
         [i \in 1 .. (nb_block - 1) |->
             BlockSizes(nb_time_filter, nb_chev_filter, nb_time_filter, 1,
                        num_of_nodes, seq_len \div time_strides)],
     final_conv |-> [in_channels |-> seq_len \div time_strides,
                     out_channels |-> pred_len * output_size,
                     kernel_size |-> nb_time_filter, stride |-> 1,
                     padding |-> 0]]

\* lines 431-432: the blocks i .. of the list, one after the other; lengths
\* lists the time length each block returned, failed is the number of the
\* module that raised (the final convolution follows the last block)
RECURSIVE BlocksShape(_, _, _, _)
BlocksShape(blocklist, i, shape, lengths) ==
    IF i > Len(blocklist)
    THEN [status |-> "ok", shape |-> shape, lengths |-> lengths]
    ELSE Bind(ASTGCNBlock_shape(blocklist[i], shape), LAMBDA r :
         IF r.status # "ok"
         THEN [status |-> r.status, failed |-> i, lengths |-> lengths]
         ELSE BlocksShape(blocklist, i + 1, r.out, Append(lengths, r.out[4])))

\* ASTGCN.forward (lines 427-438) on X of shape (B, N, F, T), shapes only
ASTGCN_shape(nt, shape) ==
    Bind(BlocksShape(nt.blocklist, 1, shape, <<>>), LAMBDA r :
    IF r.status # "ok" THEN r
    ELSE
    \* line 434: the time axis becomes the channel axis of the final
    \* convolution, whose kernel spans the nb_time_filter axis
    Bind(Conv2dShape(nt.final_conv,
                     <<r.shape[1], r.shape[4], r.shape[2], r.shape[3]>>),
         LAMBDA X :
    IF X.status # "ok"
    THEN [status |-> X.status, failed |-> Len(nt.blocklist) + 1,
          lengths |-> r.lengths]
    ELSE [status |-> "ok", lengths |-> r.lengths,
          \* lines 435-437
          out |-> <<nt.pred_len, shape[1], shape[2], nt.output_size>>]))

-----------------------------------------------------------------------------
(* The arguments the calls are made with. *)

Seeds == {0}
CtorK == -1 .. MaxK
CtorNormalization == {"none", "sym", "rw", "bad"}

PairKey(e) == Row(e) * NumNodes + Col(e)

RECURSIVE SortPairs(_)
SortPairs(S) ==
    IF S = {} THEN <<>>
    ELSE LET m == CHOOSE e \in S : \A y \in S : PairKey(e) <= PairKey(y)
         IN  <<m>> \o SortPairs(S \ {m})

\* the pairs (row, col) over the nodes of x in row-major order, loops included
AllPairs == SortPairs(Nodes \X Nodes)

\* the edge lists of the calls: every run of at most MaxEdges consecutive
\* pairs of AllPairs, the empty list (all nodes isolated) included
EdgeLists ==
    {SubSeq(AllPairs, w[1], w[1] + w[2] - 1) :
        w \in {v \in (1 .. Len(AllPairs)) \X (0 .. MaxEdges) :
                  v[1] + v[2] - 1 <= Len(AllPairs)}}

\* edge_weight omitted, or the weights 1, 2, 3, ... along the list
EdgeWeightsFor(edge_index) ==
    {None, Weights([i \in 1 .. Len(edge_index) |-> Z(i)])}

\* the forward calls pass weights together with the scalar lambda_max only
ForwardWeightsFor(edge_index, lb) ==
    IF ~IsNone(lb[1]) /\ lb[1].tensor /\ lb[1].dim = 0
    THEN EdgeWeightsFor(edge_index) ELSE {None}

\* the node features x of a call; the first call on a layer passes FirstX
XSample(s) ==
    [b \in Batch |-> [n \in Nodes |-> [f \in InCh |->
        Z(((s + b + 2 * n + 3 * f) % 4) - 1)]]]

FirstX == XSample(0)
XSamples == {XSample(0), XSample(1)}

AttentionSamples ==
    {[b \in Batch |-> [i \in Nodes |-> [j \in Nodes |->
        Q((s + b + i + 2 * j) % 4, 4)]]] : s \in {1}}

\* node i belongs to graph i mod 2 of the mini-batch
NodeBatch == BatchOf([i \in 1 .. NumNodes |-> (i - 1) % 2])

\* the pairs (lambda_max, batch) of the calls: lambda_max omitted, the Python
\* number 0, a scalar tensor, and one-dimensional tensors of one and of two
\* elements, the latter with and without the batch vector
LambdaBatchSamples ==
    {<<None, None>>, <<PyNumber(Z(0)), None>>, <<Scalar(Z(3)), None>>,
     <<Vector(<<Z(4)>>), NodeBatch>>, <<Vector(<<Z(2), Z(0)>>), NodeBatch>>,
     <<Vector(<<Z(2), Z(0)>>), None>>}

\* every list of at most MaxEdges distinct edges over the nodes, loops
\* included, the empty list included
AllEdgeLists ==
    {SortPairs(S) : S \in {T \in SUBSET (Nodes \X Nodes) : Cardinality(T) <= MaxEdges}}

\* the graphs of the block calls: no edge, the edge (0, 1), an edge to and an
\* edge from a node that X does not have; every edge goes from a lower to a
\* higher node or leaves the graph
BlockGraphs ==
    {<<>>, <<<<0, 1>>>>, <<<<0, NumNodes>>>>, <<<<NumNodes, 0>>>>}

\* the time-varying graph lists: shorter than, as long as and longer than
\* the number of timesteps
GraphLists ==
    UNION {[1 .. n -> BlockGraphs \ {<<<<NumNodes, 0>>>>}] :
              n \in 1 .. (NumTimesteps + 1)}

BlockEdgeIndex ==
    {Graph(g) : g \in BlockGraphs} \cup {GraphList(gs) : gs \in GraphLists}

\* the input X of a block call, slice by slice
BlockXSample(s) == [t \in 1 .. NumTimesteps |-> XSample(s + t)]

FirstBlockX == BlockXSample(0)
BlockXSamples == {BlockXSample(0), BlockXSample(1)}

BlockK == 0 .. MaxBlockK

\* the inputs of the attention modules: X with entries in -1 .. 1
AttentionX(s) ==
    [b \in Batch |-> [n \in Nodes |-> [f \in InCh |-> [t \in Times |->
        Z(((s[1] * (1 + b + 2 * n) + s[2] * (1 + f + 3 * t)) % 3) - 1)]]]]

AttentionSeeds == 0 .. 5
AttentionInputs == (0 .. 2) \X (0 .. 2)

NoCall == [made |-> FALSE]
NoResult == [status |-> "none"]

-----------------------------------------------------------------------------
(* The state machine of one layer object: construction, then forward calls. *)

Init ==
    /\ layer = NoLayer
    /\ ctor = NoCall
    /\ raised = "none"
    /\ call = NoCall
    /\ after = NoCall
    /\ result = NoResult
    /\ normCall = NoCall
    /\ normResult = NoResult
    /\ block = NoLayer
    /\ net = NoLayer
    /\ blockCall = NoCall
    /\ blockAfter = NoCall
    /\ blockResult = NoResult
    /\ attCall = NoCall
    /\ attResult = NoResult
    /\ sizeCall = NoCall
    /\ sizeResult = NoResult

\* no constructor call has returned an object so far
NothingBuilt == ~layer.ok /\ ~block.ok /\ ~net.ok

\* layer = ChebConvAttention(in_channels, out_channels, K, normalization, bias)
Construct ==
    /\ NothingBuilt
    /\ \E K \in CtorK, normalization \in CtorNormalization, bias \in BOOLEAN,
       seed \in Seeds :
        LET made == ChebConvAttention(K, normalization, bias, seed)
        IN  /\ ctor' = [made |-> TRUE, class |-> "ChebConvAttention", K |-> K,
                        normalization |-> normalization, bias |-> bias,
                        seed |-> seed, nb_block |-> 0]
            /\ raised' = made.raised
            /\ layer' = IF made.ok THEN made.layer ELSE NoLayer
            /\ UNCHANGED <<sizeCall, sizeResult, call, after, result, normCall, normResult, block,
                           net, blockCall, blockAfter, blockResult,
                           attCall, attResult>>

\* the result record without the store
Outcome(r) ==
    IF r.status = "ok"
    THEN [status |-> "ok", lambda_max |-> r.lambda_max, norm |-> r.norm,
          terms |-> r.terms, out |-> r.out]
    ELSE [status |-> r.status]

\* the effect of out = layer(c.x, c.edge_index, c.spatial_attention,
\* c.edge_weight, c.batch, c.lambda_max) on the state
Called(c) ==
    \E r \in {forward(layer, c)} :
        /\ call' = c
        /\ result' = Outcome(r)
        /\ layer' = [layer EXCEPT !.weight = r.store._weight,
                                  !.bias = r.store._bias]
        /\ after' = [c EXCEPT !.x = r.store.x,
                              !.edge_index = r.store.edge_index,
                              !.edge_weight = r.store.edge_weight,
                              !.spatial_attention = r.store.spatial_attention,
                              !.batch = r.store.batch,
                              !.lambda_max = r.store.lambda_max]
        /\ UNCHANGED <<sizeCall, sizeResult, ctor, raised, normCall, normResult, block, net,
                       blockCall, blockAfter, blockResult,
                       attCall, attResult>>

\* the first forward call on the layer, with any arguments
Forward ==
    /\ layer.ok
    /\ ~call.made
    /\ \E edge_index \in EdgeLists, spatial_attention \in AttentionSamples,
          lb \in LambdaBatchSamples :
        \E edge_weight \in ForwardWeightsFor(edge_index, lb) :
            Called([made |-> TRUE, x |-> FirstX, edge_index |-> edge_index,
                    spatial_attention |-> spatial_attention,
                    edge_weight |-> edge_weight, batch |-> lb[2],
                    lambda_max |-> lb[1]])

\* a later forward call: the caller passes the tensors of the call before as
\* they are now, with the same or another x
ForwardAgain ==
    /\ layer.ok
    /\ call.made
    /\ \E x \in XSamples \cup {after.x} : Called([after EXCEPT !.x = x])

Next == Construct \/ Forward \/ ForwardAgain

Spec == Init /\ [][Next]_vars

-----------------------------------------------------------------------------
(* __norm__ called on its own, on every small graph.                        *)

InitNorm == Init

\* layer.__norm__(edge_index, num_nodes, edge_weight, normalization,
\*                lambda_max, dtype, batch), lambda_max a tensor
NormCall ==
    /\ ~normCall.made
    /\ \E edge_index \in AllEdgeLists, normalization \in {"none", "sym", "rw"},
       lb \in LambdaBatchSamples :
        \E edge_weight \in EdgeWeightsFor(edge_index) :
            /\ ~IsNone(lb[1])
            /\ normCall' = [made |-> TRUE, edge_index |-> edge_index,
                            edge_weight |-> edge_weight,
                            normalization |-> normalization,
                            lambda_max |-> LambdaTensor(lb[1]), batch |-> lb[2]]
            /\ normResult' = norm_(edge_index, edge_weight, normalization,
                                   LambdaTensor(lb[1]), lb[2])
            /\ UNCHANGED <<sizeCall, sizeResult, layer, ctor, raised, call, after, result, block,
                           net, blockCall, blockAfter, blockResult,
                           attCall, attResult>>


NextNorm == NormCall

SpecNorm == InitNorm /\ [][NextNorm]_vars

-----------------------------------------------------------------------------
(* The layer next to the block and the network that build one.              *)

\* block = ASTGCNBlock(in_channels, K, nb_chev_filter, nb_time_filter,
\*                     time_strides, num_of_vertices, num_of_timesteps,
\*                     normalization, bias)
BlockConstruct ==
    /\ NothingBuilt
    /\ \E K \in BlockK, normalization \in CtorNormalization, bias \in BOOLEAN,
          seed \in Seeds :
        LET made == ASTGCNBlock(K, normalization, bias, seed)
        IN  /\ ctor' = [made |-> TRUE, class |-> "ASTGCNBlock", K |-> K,
                        normalization |-> normalization, bias |-> bias,
                        seed |-> seed, nb_block |-> 0]
            /\ raised' = made.raised
            /\ block' = IF made.ok THEN made.block ELSE NoLayer
            /\ UNCHANGED <<sizeCall, sizeResult, layer, net, call, after, result, normCall,
                           normResult, blockCall, blockAfter, blockResult,
                           attCall, attResult>>

\* net = ASTGCN(nb_block, input_size, output_size, max_view, ...), K = max_view
NetConstruct ==
    /\ NothingBuilt
    /\ \E nb_block \in 1 .. MaxBlocks, K \in BlockK,
          normalization \in CtorNormalization, bias \in BOOLEAN, seed \in Seeds :
        LET made == ASTGCN(nb_block, K, normalization, bias, seed)
        IN  /\ ctor' = [made |-> TRUE, class |-> "ASTGCN", K |-> K,
                        normalization |-> normalization, bias |-> bias,
                        seed |-> seed, nb_block |-> nb_block]
            /\ raised' = made.raised
            /\ net' = IF made.ok THEN made.net ELSE NoLayer
            /\ UNCHANGED <<sizeCall, sizeResult, layer, block, call, after, result, normCall,
                           normResult, blockCall, blockAfter, blockResult,
                           attCall, attResult>>

\* the result record without the tensors after the call
BlockOutcome(r) ==
    IF r.status = "ok"
    THEN [status |-> "ok", X_hat |-> r.X_hat, calls |-> r.calls,
          modules |-> r.modules, residual_input |-> r.residual_input]
    ELSE [status |-> r.status, calls |-> r.calls, modules |-> r.modules]

\* the effect of out = block(c.X, c.edge_index) on the state
BlockCalled(c) ==
    \E r \in {ASTGCNBlock_forward(block, c)} :
        /\ blockCall' = c
        /\ blockResult' = BlockOutcome(r)
        /\ block' = [block EXCEPT !.chebconv_attention = r.conv]
        /\ blockAfter' = [c EXCEPT !.X = r.X, !.edge_index = r.edge_index]
        /\ UNCHANGED <<sizeCall, sizeResult, layer, net, ctor, raised, call, after, result,
                       normCall, normResult, attCall, attResult>>

\* the first call of the block, with any arguments
BlockForward ==
    /\ block.ok
    /\ ~blockCall.made
    /\ \E edge_index \in BlockEdgeIndex :
        BlockCalled([made |-> TRUE, X |-> FirstBlockX, edge_index |-> edge_index])

\* a later call: the caller passes the tensors of the call before as they
\* are now, with the same or another X
BlockForwardAgain ==
    /\ block.ok
    /\ blockCall.made
    /\ \E X \in BlockXSamples \cup {blockAfter.X} :
          BlockCalled([blockAfter EXCEPT !.X = X])

NextBlock ==
    Next \/ BlockConstruct \/ NetConstruct \/ BlockForward \/ BlockForwardAgain

SpecBlock == Init /\ [][NextBlock]_vars

-----------------------------------------------------------------------------
(* The attention modules called on their own.                               *)

\* S = SpatialAttention(in_channels, num_of_vertices, num_of_timesteps)(X)
SpatialCall ==
    /\ ~attCall.made
    /\ \E seed \in AttentionSeeds, s \in AttentionInputs :
        /\ attCall' = [made |-> TRUE, module |-> "SpatialAttention",
                       parameters |-> SpatialParameters(seed), X |-> AttentionX(s)]
        /\ attResult' = [status |-> "ok", size |-> Nodes,
                         out |-> SpatialAttention_forward(SpatialParameters(seed),
                                                          AttentionX(s))]
        /\ UNCHANGED <<sizeCall, sizeResult, layer, ctor, raised, call, after, result, normCall,
                       normResult, block, net, blockCall, blockAfter, blockResult>>

\* E = TemporalAttention(in_channels, num_of_vertices, num_of_timesteps)(X)
TemporalCall ==
    /\ ~attCall.made
    /\ \E seed \in AttentionSeeds, s \in AttentionInputs :
        /\ attCall' = [made |-> TRUE, module |-> "TemporalAttention",
                       parameters |-> TemporalParameters(seed), X |-> AttentionX(s)]
        /\ attResult' = [status |-> "ok", size |-> Times,
                         out |-> TemporalAttention_forward(TemporalParameters(seed),
                                                           AttentionX(s))]
        /\ UNCHANGED <<sizeCall, sizeResult, layer, ctor, raised, call, after, result, normCall,
                       normResult, block, net, blockCall, blockAfter, blockResult>>

NextAtt == SpatialCall \/ TemporalCall

SpecAtt == Init /\ [][NextAtt]_vars

-----------------------------------------------------------------------------
(* Blocks and networks of every size, built and called once.              *)

\* the sizes of the calls that are not varied
BatchSize == Cardinality(Batch)
InChannels == Cardinality(InCh)
ChevFilters == Cardinality(OutCh)
TimeFilters == {1, 2}

\* block = ASTGCNBlock(in_channels, K, nb_chev_filter, nb_time_filter,
\* time_strides, num_of_vertices, num_of_timesteps); block(X, edge_index)
\* with X of T timesteps
BlockSizeCall ==
    /\ ~sizeCall.made
    /\ \E num_of_timesteps \in 1 .. MaxSeqLen, time_strides \in 1 .. MaxStride,
          nb_time_filter \in TimeFilters :
        \E T \in {num_of_timesteps, num_of_timesteps + 1} :
            /\ sizeCall' = [made |-> TRUE, class |-> "ASTGCNBlock",
                            num_of_timesteps |-> num_of_timesteps,
                            time_strides |-> time_strides,
                            nb_time_filter |-> nb_time_filter,
                            X |-> <<BatchSize, NumNodes, InChannels, T>>]
            /\ sizeResult' =
                   ASTGCNBlock_shape(
                       BlockSizes(InChannels, ChevFilters, nb_time_filter,
                                  time_strides, NumNodes, num_of_timesteps),
                       <<BatchSize, NumNodes, InChannels, T>>)
            /\ UNCHANGED <<layer, ctor, raised, call, after, result, normCall,
                           normResult, block, net, blockCall, blockAfter,
                           blockResult, attCall, attResult>>

\* net = ASTGCN(nb_block, input_size, output_size, max_view, nb_chev_filter,
\* nb_time_filter, time_strides, pred_len, seq_len, num_of_nodes);
\* net(X, edge_index) with X of seq_len timesteps.  A module built for no
\* timestep at all (seq_len < time_strides) has parameters without elements,
\* which the initializers of some versions of the library divide by: the
\* constructor raises or returns.
NetSizeCall ==
    /\ ~sizeCall.made
    /\ \E nb_block \in 1 .. MaxBlocks, seq_len \in 1 .. MaxSeqLen,
          time_strides \in 1 .. MaxStride, nb_time_filter \in TimeFilters :
        \E raises \in IF seq_len < time_strides THEN BOOLEAN ELSE {FALSE} :
            /\ sizeCall' = [made |-> TRUE, class |-> "ASTGCN",
                            nb_block |-> nb_block, seq_len |-> seq_len,
                            time_strides |-> time_strides,
                            nb_time_filter |-> nb_time_filter,
                            X |-> <<BatchSize, NumNodes, InChannels, seq_len>>]
            /\ sizeResult' =
                   IF raises THEN [status |-> "ZeroDivisionError"]
                   ELSE ASTGCN_shape(
                            NetSizes(nb_block, InChannels, 1, ChevFilters,
                                     nb_time_filter, time_strides, 1, seq_len,
                                     NumNodes),
                            <<BatchSize, NumNodes, InChannels, seq_len>>)
            /\ UNCHANGED <<layer, ctor, raised, call, after, result, normCall,
                           normResult, block, net, blockCall, blockAfter,
                           blockResult, attCall, attResult>>

NextSize == BlockSizeCall \/ NetSizeCall

SpecSize == Init /\ [][NextSize]_vars

-----------------------------------------------------------------------------
(* Properties of __norm__ (checked under SpecNorm).                         *)

NormReturned == normCall.made /\ normResult.ok

\* the entries of the Laplacian of the last call: those before the loops
\* that line 90 appends
LapEdges == 1 .. Len(normResult.laplacian.edge_index)

\* the positions of the entries (i, i) in the returned edge list
LoopsAt(i) ==
    {e \in 1 .. Len(normResult.edge_index) : normResult.edge_index[e] = <<i, i>>}

\* 2*w/lam as the code leaves it: +inf replaced by 0
Scaled(w, lam) ==
    LET q == FDiv(FMul(Z(2), w), lam) IN IF q = Inf THEN Z(0) ELSE q

\* C2 (as claimed): every Laplacian edge whose divisor lambda_max is 0 is
\* returned with the scaled weight 0, finite, never an infinity or NaN,
\* whatever the unscaled weight is.
C2_ZeroDivisorGivesZero ==
    NormReturned =>
        \A e \in LapEdges :
            normResult.divisors[e] = Z(0) => normResult.edge_weight[e] = Z(0)

\* C3 (amended): under symmetric normalization the returned edge list holds,
\* for every node i, two entries (i, i): the Laplacian's own diagonal entry,
\* scaled to 2/lambda_max (0 when lambda_max is 0), and after it the appended
\* loop of weight -1; nothing is overwritten, and an aggregation over the
\* list adds the two.
C3_SymLoopAppended ==
    (NormReturned /\ normCall.normalization = "sym") =>
        \A i \in Nodes :
            LET diag == Len(normResult.laplacian.edge_index) - NumNodes + i + 1
                loop == Len(normResult.edge_index) - NumNodes + i + 1
            IN  /\ LoopsAt(i) = {diag, loop}
                /\ diag # loop
                /\ normResult.edge_weight[loop] = Z(-1)
                /\ normResult.edge_weight[diag]
                       = Scaled(Z(1), normResult.divisors[diag])

\* C3 (as claimed): under symmetric normalization every node i has one entry
\* (i, i) in the returned list, of weight exactly -1.
C3_SymLoopReplaced ==
    (NormReturned /\ normCall.normalization = "sym") =>
        \A i \in Nodes :
            /\ Cardinality(LoopsAt(i)) = 1
            /\ \A e \in LoopsAt(i) : normResult.edge_weight[e] = Z(-1)

\* a symmetric call on a weighted graph with an edge, returning for node 0
\* the diagonal entry of weight 2/3 and the appended loop of weight -1
C3_Witness ==
    /\ NormReturned
    /\ normCall.normalization = "sym"
    /\ ~IsNone(normCall.edge_weight)
    /\ \E e \in 1 .. Len(normCall.edge_index) :
          Row(normCall.edge_index[e]) # Col(normCall.edge_index[e])
    /\ {normResult.edge_weight[e] : e \in LoopsAt(0)} = {Q(2, 3), Z(-1)}

\* the divisor of Laplacian entry e that the arguments of the call select
GraphDivisor(e) ==
    normCall.lambda_max.val[
        normCall.batch.b[Row(normResult.laplacian.edge_index[e]) + 1] + 1]

\* every Laplacian entry e is returned as its weight scaled by d[e], and the
\* appended loops are returned with weight -1
ScaledBy(d) ==
    /\ \A e \in LapEdges :
          normResult.edge_weight[e] = Scaled(normResult.laplacian.edge_weight[e], d[e])
    /\ \A e \in (1 .. Len(normResult.edge_index)) \ LapEdges :
          normResult.edge_weight[e] = Z(-1)

-----------------------------------------------------------------------------
(* Properties of ChebConvAttention.forward (checked under Spec).            *)

\* C1: a forward call with lambda_max omitted raises the ValueError whenever
\* the layer's normalization is not 'sym', on every such call and with no
\* Laplacian and no output computed; under 'sym' it does not raise and
\* divides the Laplacian by lambda_max = 2.0.
C1_MissingLambdaMaxRaises ==
    (layer.ok /\ call.made /\ IsNone(call.lambda_max)) =>
        IF layer.normalization # "sym"
        THEN result = [status |-> "ValueError"]
        ELSE /\ result.status = "ok"
             /\ result.lambda_max = Scalar(Z(2))
             /\ \A e \in 1 .. Len(result.norm.divisors) :
                   result.norm.divisors[e] = Z(2)

\* a second call without lambda_max on a random-walk layer has raised
C1_Witness ==
    /\ layer.ok
    /\ layer.normalization = "rw"
    /\ call.made
    /\ IsNone(call.lambda_max)
    /\ call.x = XSample(1)
    /\ Len(call.edge_index) > 0
    /\ result.status = "ValueError"

\* lambda_max as the layer documents it: given unless the layer is 'sym',
\* and of one element unless a batch vector comes with it
DocumentedLambdaMax(lyr, c) ==
    /\ ~(lyr.normalization # "sym" /\ IsNone(c.lambda_max))
    /\ IsNone(c.lambda_max) \/ Numel(c.lambda_max) = 1 \/ ~IsNone(c.batch)

\* spatial_attention[b, i, i] * (x[b, i, :] @ W[0]) + bias
DiagonalGatedProjection(lyr, c) ==
    [b \in Batch |-> [i \in Nodes |-> [o \in OutCh |->
        FAdd(FMul(c.spatial_attention[b][i][i],
                  FSum([f \in InCh |-> FMul(c.x[b][i][f], lyr.weight[0][f][o])],
                       InChSeq)),
             IF IsNone(lyr.bias) THEN Z(0) ELSE lyr.bias.v[o])]]]

ExtendedByZero(lyr) ==
    [lyr EXCEPT !.K = lyr.K + 1,
                !.weight = [k \in 0 .. lyr.K |->
                               IF k < lyr.K THEN lyr.weight[k]
                               ELSE [f \in InCh |-> [o \in OutCh |-> Z(0)]]]]

\* C6 (as claimed): for every input, the layer of order K + 1 whose extra
\* weight W[K] is zero returns the output of the order-K layer.
C6_ZeroTermChangesNothing ==
    (layer.ok /\ call.made /\ result.status = "ok") =>
        LET r == forward(ExtendedByZero(layer), call)
        IN  r.status = "ok" /\ r.out = result.out

-----------------------------------------------------------------------------
(* Properties of construction and of the calls on the objects (checked      *)
(* under SpecBlock).                                                        *)

\* C8: constructing a ChebConvAttention, an ASTGCNBlock or an ASTGCN with a
\* filter order K <= 0 or a normalization outside None, 'sym', 'rw' raises
\* at construction: no object is returned and no forward call is made on
\* one; any other K and normalization return the object.
C8_InvalidConfigurationFails ==
    ctor.made =>
        IF ctor.K <= 0 \/ ctor.normalization \notin {"none", "sym", "rw"}
        THEN /\ raised = "AssertionError"
             /\ ~layer.ok /\ ~block.ok /\ ~net.ok
             /\ ~call.made /\ ~blockCall.made
        ELSE /\ raised = "none"
             /\ layer.ok <=> ctor.class = "ChebConvAttention"
             /\ block.ok <=> ctor.class = "ASTGCNBlock"
             /\ net.ok <=> ctor.class = "ASTGCN"

\* an ASTGCN of two blocks was constructed with K = 0 and a valid
\* normalization, and the construction raised
C8_Witness ==
    /\ ctor.made
    /\ ctor.class = "ASTGCN"
    /\ ctor.nb_block = 2
    /\ ctor.K = 0
    /\ ctor.normalization = "sym"
    /\ raised = "AssertionError"
    /\ ~net.ok

\* an edge of g that is not a loop has an endpoint that is no node of X
ForeignNode(g) == ~RowsInRange(g) \/ ~ColsInRange(g)

\* the graph argument of the call c does not fit X: a graph with a node that
\* X does not have, or a graph list of another length than X has timesteps
ShapeMismatch(c) ==
    IF c.edge_index.list
    THEN \/ Len(c.edge_index.graphs) # NumTimesteps
         \/ \E t \in 1 .. Len(c.edge_index.graphs) :
               ForeignNode(c.edge_index.graphs[t])
    ELSE ForeignNode(c.edge_index.graph)

\* C9 (as claimed): a call of the block whose graph does not fit X raises
\* and returns no tensor.
C9_ShapeMismatchRaises ==
    (blockCall.made /\ ShapeMismatch(blockCall)) => blockResult.status # "ok"

\* C10: after any sequence of forward calls on a layer or on a block, the
\* learnable tensors and the caller's tensors are what they were (the layer
\* is the object as constructed, with no further attribute), and what the
\* last call returned is what the same call returns on the object as
\* constructed, whatever calls came before.
C10_ForwardLeavesNoTrace ==
    /\ (layer.ok /\ call.made) =>
          LET made == ChebConvAttention(ctor.K, ctor.normalization, ctor.bias,
                                        ctor.seed).layer
          IN  /\ after = call
              /\ layer = made
              /\ result = Outcome(forward(made, call))
    /\ (block.ok /\ blockCall.made) =>
          LET made == ASTGCNBlock(ctor.K, ctor.normalization, ctor.bias,
                                  ctor.seed).block
          IN  /\ blockAfter = blockCall
              /\ block = made
              /\ blockResult = BlockOutcome(ASTGCNBlock_forward(made, blockCall))

\* a layer with a bias (added in place into out) and three Chebyshev terms
\* has returned from a second call, on a graph with a zero lambda_max
C10_Witness ==
    /\ layer.ok
    /\ layer.K = 3
    /\ ~IsNone(layer.bias)
    /\ call.made
    /\ call.x = XSample(1)
    /\ Len(call.edge_index) > 0
    /\ ~IsNone(call.lambda_max)
    /\ call.lambda_max.val[1] = Z(0)
    /\ result.status = "ok"

-----------------------------------------------------------------------------
(* Properties of the attention modules (checked under SpecAtt).             *)

\* C4: the matrix S of SpatialAttention.forward and the matrix E of
\* TemporalAttention.forward are normalized along axis 1: for every batch
\* element b and every last-axis index j the entries [b, i, j] summed over
\* all i equal 1, and every entry lies in [0, 1].
C4_AttentionNormalizedAlongAxis1 ==
    attCall.made =>
        \A b \in Batch, j \in attResult.size :
            /\ FSum([i \in attResult.size |-> attResult.out[b][i][j]],
                    SetToSeq(attResult.size)) = Z(1)
            /\ \A i \in attResult.size :
                  /\ IsFinite(attResult.out[b][i][j])
                  /\ FLe(Z(0), attResult.out[b][i][j])
                  /\ FLe(attResult.out[b][i][j], Z(1))

\* a temporal attention matrix that is not uniform and whose rows (last
\* axis) do not sum to 1 was returned
C4_Witness ==
    /\ attCall.made
    /\ attCall.module = "TemporalAttention"
    /\ \E b \in Batch, i \in attResult.size :
          /\ attResult.out[b][i][0] # attResult.out[b][i][1]
          /\ FSum([j \in attResult.size |-> attResult.out[b][i][j]],
                  SetToSeq(attResult.size)) # Z(1)

-----------------------------------------------------------------------------
(* The Chebyshev terms of a forward call.                                   *)

\* the entries of the edge list that leave node r, in list order
EdgesFrom(edge_index, r) ==
    SetToSeq({e \in 1 .. Len(edge_index) : Row(edge_index[e]) = r})

\* sum over the edges e = (r, c) of w[e] * S[b, r, c] * T[b, c, :]
AttentionAggregation(edge_index, w, S, T) ==
    [b \in Batch |-> [r \in Nodes |-> [f \in InCh |->
        FSum([e \in 1 .. Len(edge_index) |->
                 FMul(FMul(w[e], S[b][r][Col(edge_index[e])]),
                      T[b][Col(edge_index[e])][f])],
             EdgesFrom(edge_index, r))]]]

\* C11: for K > 1 the order-1 term of a forward call that returns is, at
\* every batch element b and node r, the sum over all entries e = (r, c) of
\* the normalized edge list (the loops included) of
\* w[e] * spatial_attention[b, r, c] * T0[b, c, :], T0 the order-0 term.
C11_OrderOneIsAttentionAggregation ==
    (layer.ok /\ layer.K > 1 /\ call.made /\ result.status = "ok") =>
        result.terms[2] =
            AttentionAggregation(result.norm.edge_index, result.norm.edge_weight,
                                 call.spatial_attention, result.terms[1])

\* a layer of order above 1 was called on a graph with the edge (0, 1) and
\* returned an order-1 term with a finite non-zero entry that differs from
\* the order-0 term
C11_Witness ==
    /\ layer.ok
    /\ layer.K > 1
    /\ call.made
    /\ \E e \in 1 .. Len(call.edge_index) : call.edge_index[e] = <<0, 1>>
    /\ result.status = "ok"
    /\ result.terms[2] # result.terms[1]
    /\ \E b \in Batch, n \in Nodes, f \in InCh :
          IsFinite(result.terms[2][b][n][f]) /\ result.terms[2][b][n][f] # Z(0)

\* sum over the edges e = (r, c) of w[e] * T[b, c, :]
PlainAggregation(edge_index, w, T) ==
    [b \in Batch |-> [r \in Nodes |-> [f \in InCh |->
        FSum([e \in 1 .. Len(edge_index) |->
                 FMul(w[e], T[b][Col(edge_index[e])][f])],
             EdgesFrom(edge_index, r))]]]

\* sum over k in 0 .. K-1 of T_k @ W[k], plus the bias once
WeightedSumOfTerms(lyr, terms) ==
    [b \in Batch |-> [n \in Nodes |-> [o \in OutCh |->
        FAdd(FSum([k \in 0 .. (lyr.K - 1) |->
                      FSum([f \in InCh |->
                               FMul(terms[k + 1][b][n][f], lyr.weight[k][f][o])],
                           InChSeq)],
                  SetToSeq(0 .. (lyr.K - 1))),
             IF IsNone(lyr.bias) THEN Z(0) ELSE lyr.bias.v[o])]]]

\* C12: a forward call that returns has computed K terms; for every k from 2
\* to K-1, T_k = 2*P - T_{k-2} with P the aggregation of T_{k-1} over the
\* normalized edge list with the plain weights w; the output is the sum over
\* k in 0 .. K-1 of T_k @ W[k] plus the bias once when the layer has one.
C12_ChebyshevRecurrence ==
    (layer.ok /\ call.made /\ result.status = "ok") =>
        /\ Len(result.terms) = layer.K
        /\ \A k \in 2 .. (layer.K - 1) :
              LET P == PlainAggregation(result.norm.edge_index,
                                        result.norm.edge_weight, result.terms[k])
              IN  result.terms[k + 1] =
                      [b \in Batch |-> [n \in Nodes |-> [f \in InCh |->
                          FSub(FMul(Z(2), P[b][n][f]), result.terms[k - 1][b][n][f])]]]
        /\ result.out = WeightedSumOfTerms(layer, result.terms)

\* a layer of order 4 with a bias was called on a graph with the edge (0, 1)
\* and returned a finite output; its terms T_2 and T_3 differ
C12_Witness ==
    /\ layer.ok
    /\ layer.K = 4
    /\ ~IsNone(layer.bias)
    /\ call.made
    /\ \E e \in 1 .. Len(call.edge_index) : call.edge_index[e] = <<0, 1>>
    /\ result.status = "ok"
    /\ result.terms[3] # result.terms[4]
    /\ \A b \in Batch, n \in Nodes, o \in OutCh : IsFinite(result.out[b][n][o])

-----------------------------------------------------------------------------
(* The data flow of one call of the block (checked under SpecBlock).        *)

\* the graph the call c of the block has for timestep t
GraphAt(c, t) ==
    IF c.edge_index.list THEN c.edge_index.graphs[t] ELSE c.edge_index.graph

\* X[b, n, f, :] @ E[b], the temporally reweighted tensor
TemporallyReweighted(X, E) ==
    [b \in Batch |-> [n \in Nodes |-> [f \in InCh |-> [u \in Times |->
        FSum([t \in Times |-> FMul(X[t + 1][b][n][f], E[b][t][u])], TimeSeq)]]]]

\* C13: one call of the block calls the temporal attention on X and then,
\* once, the spatial attention on the temporally reweighted tensor; every
\* convolution of the call, the one of timestep t being the t-th, gets the
\* matrix that call returned; with a static graph every convolution gets the
\* one edge list, with a list of graphs the convolution of timestep t gets
\* edge_index[t]; a call that returns has run one convolution per timestep.
C13_OneSpatialAttentionPerCall ==
    blockCall.made =>
        LET m == blockResult.modules
            c == blockResult.calls
        IN  /\ Len(m) = 2
            /\ m[1].module = "TemporalAttention"
            /\ m[1].input = AsTensor(blockCall.X)
            /\ m[2].module = "SpatialAttention"
            /\ m[2].input = TemporallyReweighted(blockCall.X, m[1].output)
            /\ \A i \in 1 .. Len(c) :
                  /\ c[i].t = i
                  /\ c[i].spatial_attention = m[2].output
                  /\ c[i].edge_index = GraphAt(blockCall, i)
            /\ blockResult.status = "ok" => Len(c) = NumTimesteps

\* a block was called with a list of graphs whose first two entries differ
\* and with an X whose reweighted tensor is not X, and returned
C13_Witness ==
    /\ block.ok
    /\ blockCall.made
    /\ blockCall.edge_index.list
    /\ Len(blockCall.edge_index.graphs) = NumTimesteps
    /\ blockCall.edge_index.graphs[1] # blockCall.edge_index.graphs[2]
    /\ blockResult.status = "ok"
    /\ blockResult.modules[2].input # AsTensor(blockCall.X)
    /\ Len(blockResult.calls) = NumTimesteps

\* C17: the convolution of timestep t gets the slice X[:, :, :, t] of the
\* X the block was called with; the residual convolution gets that X; and
\* X_hat is, timestep by timestep, the rectified output of the convolution
\* on that slice, the graph of the timestep and the spatial attention matrix.
C17_ConvolutionReadsOriginalX ==
    blockCall.made =>
        /\ \A i \in 1 .. Len(blockResult.calls) :
              blockResult.calls[i].x = blockCall.X[i]
        /\ blockResult.status = "ok" =>
              /\ blockResult.residual_input = blockCall.X
              /\ \A t \in 1 .. NumTimesteps :
                    LET r == forward(block.chebconv_attention,
                                 [made |-> TRUE, x |-> blockCall.X[t],
                                  edge_index |-> GraphAt(blockCall, t),
                                  spatial_attention |->
                                      blockResult.modules[2].output,
                                  edge_weight |-> None, batch |-> None,
                                  lambda_max |-> blockResult.calls[t].lambda_max])
                    IN  /\ r.status = "ok"
                        /\ blockResult.X_hat[t] =
                               [b \in Batch |-> [n \in Nodes |-> [o \in OutCh |->
                                   Relu(r.out[b][n][o])]]]

\* a block was called with an X whose reweighted tensor differs from X at
\* the first timestep, and returned
C17_Witness ==
    /\ block.ok
    /\ blockCall.made
    /\ blockResult.status = "ok"
    /\ SliceAt(blockResult.modules[2].input, 1) # blockCall.X[1]
    /\ Len(blockResult.calls) = NumTimesteps

\* the entry (n, n) of the matrix the edge list lap stands for
DiagonalOf(lap, n) ==
    FSum(lap.edge_weight,
         SetToSeq({e \in 1 .. Len(lap.edge_index) : lap.edge_index[e] = <<n, n>>}))

\* the largest eigenvalue of the Laplacian that get_laplacian builds from the
\* graph g under the normalization, for a graph whose edges all go from a
\* lower to a higher node: the matrix is triangular and its eigenvalues are
\* its diagonal entries
LargestEigenvalue(normalization, g) ==
    LET lap == get_laplacian(g, None, normalization)
        diagonal == {DiagonalOf(lap, n) : n \in Nodes}
    IN  CHOOSE v \in diagonal : \A u \in diagonal : FLe(u, v)

\* C16 (as claimed): in a call of a block whose normalization is not 'sym',
\* the lambda_max every convolution gets is the largest eigenvalue of the
\* Laplacian of its graph built with the normalization of the block, which
\* is the one the convolution builds and scales.
C16_LambdaMaxOfSameNormalization ==
    (block.ok /\ blockCall.made /\ block.normalization # "sym") =>
        \A i \in 1 .. Len(blockResult.calls) :
            blockResult.calls[i].lambda_max =
                PyNumber(LargestEigenvalue(block.normalization,
                                           GraphAt(blockCall, i)))

-----------------------------------------------------------------------------
(* Properties of the shapes (checked under SpecSize).                       *)

\* C14: a block built for T >= 1 timesteps and a time stride s >= 1, called
\* with X of T timesteps, returns; its time convolution and its residual
\* convolution both return the time length floor((T-1)/s) + 1, and the block
\* returns the shape (batch, node, nb_time_filter, floor((T-1)/s) + 1).
C14_ConvolutionsAgreeOnTimeLength ==
    (/\ sizeCall.made
     /\ sizeCall.class = "ASTGCNBlock"
     /\ sizeCall.X[4] = sizeCall.num_of_timesteps) =>
        LET T_out == ((sizeCall.X[4] - 1) \div sizeCall.time_strides) + 1
        IN  /\ sizeResult.status = "ok"
            /\ sizeResult.time_convolution[4] = T_out
            /\ sizeResult.residual_convolution[4] = T_out
            /\ sizeResult.out =
                   <<sizeCall.X[1], sizeCall.X[2], sizeCall.nb_time_filter, T_out>>

\* a block with a time stride above 1 that does not divide T - 1 was called
\* with X of T > 2 timesteps and returned
C14_Witness ==
    /\ sizeCall.made
    /\ sizeCall.class = "ASTGCNBlock"
    /\ sizeCall.time_strides > 1
    /\ sizeCall.X[4] > 2
    /\ (sizeCall.X[4] - 1) % sizeCall.time_strides # 0
    /\ sizeCall.X[4] = sizeCall.num_of_timesteps
    /\ sizeResult.status = "ok"

\* C15 (as claimed): for every ASTGCN that was built, with seq_len >= 1 and
\* time_strides >= 1, a forward pass on X of seq_len timesteps returns, and
\* the time length its first block returns is seq_len // time_strides, the
\* length the later blocks and the final convolution are built for.
C15_TimeLengthsAgree ==
    (/\ sizeCall.made
     /\ sizeCall.class = "ASTGCN"
     /\ sizeResult.status # "ZeroDivisionError") =>
        /\ sizeResult.status = "ok"
        /\ sizeResult.lengths[1] = sizeCall.seq_len \div sizeCall.time_strides

=============================================================================
